---- MODULE Spec2Model ----
(***************************************************************************)
(* Model of the Service class of managed-daemon (src/src/Service.ts): the   *)
(* lifecycle state machine (start, stop, restart, kill), the exit watcher   *)
(* installed on every spawned child and the log tailer (printer/printLog).  *)
(*                                                                          *)
(* The program runs on one JavaScript event loop.  A handler runs to its    *)
(* first await without interruption; the only await of the class is the     *)
(* warm-up wait of start().  sleep() (src/src/sleep.ts) blocks the thread   *)
(* with Atomics.wait and then yields one microtask, so the continuation of  *)
(* start() is run before the event loop delivers any operation started by   *)
(* that call (the status() of its child, its timer, its file read); what    *)
(* can run between the call and its continuation is the caller's own code   *)
(* (further API calls) and status() reactions of children spawned earlier.  *)
(* The child is a separate OS process: it writes and exits at any time.     *)
(***************************************************************************)
EXTENDS Integers, Sequences, FiniteSets

\* Bounds of the model.
MaxSpawn == 2   \* start attempts in one behaviour
MaxBytes == 1   \* bytes a child writes to the log
MaxReads == 1   \* log reads in flight at once
MaxStale == 1   \* pending poll timers no longer referenced by this.tid
MaxTTL == 2     \* largest printTTL given in the options

\* Service.ts:21: the default of printTTL.
DefaultTTL == 4

VARIABLES
  command,    \* TRUE iff options.command was given (Service.ts:57,64)
  startWait,  \* this.startWait (Service.ts:59)
  logFile,    \* this.logFile: path (TRUE iff a string), print, printTTL, streamed, tail, retryCount
  state,      \* this.state
  pid,        \* this.pid; 0 is null
  proc,       \* this.proc: the attempt that spawned it; 0 is undefined
  procOpen,   \* whether the resource of this.proc is still in the resource table
  tid,        \* this.tid: "null", or the timer it names is "pending" or has "fired"
  stale,      \* number of pending poll timers this.tid no longer names
  rid,        \* this.rid; 0 is null
  handles,    \* the write handles opened on the log file that are still open
  child,      \* per start attempt: "none", "alive", "exited" (status() not yet delivered), "done"
  nAtt,       \* number of start attempts that reached Deno.run
  signalled,  \* children that Deno.kill reached while alive
  awaiting,   \* continuations of start() waiting after the warm-up: [g, k, old]
  promises,   \* completion signals handed out and not settled: <<operation, attempt>>
  reads,      \* offsets of the log reads in flight
  fileLen,    \* size of the log file
  written,    \* bytes the current child has written
  nStop,      \* onStop invocations since start() last spawned a child (since construction before)
  lastCb,     \* the callback of the options invoked last, "none" if none was
  last,       \* the step taken last: operation, outcome, attempt, pid before, wait, signal sent
  apiOpen     \* the owner of the Service may still call it

cfg == <<command, startWait>>
svc == <<logFile, state, pid, proc, procOpen, tid, stale, rid, handles, child, nAtt,
         signalled, awaiting, promises, reads, nStop, lastCb, last>>
env == <<fileLen, written, apiOpen>>
vars == <<cfg, svc, env>>

Attempts == 1..MaxSpawn
Waits == {0, 1}

Max(a, b) == IF a > b THEN a ELSE b

\* A step record for `last`.
Ev(op, out, g, old, w, sent) ==
  [op |-> op, out |-> out, g |-> g, old |-> old, w |-> w, sent |-> sent]

Env(op) == Ev(op, "none", 0, 0, 0, FALSE)

\* The logFile option: undefined ("none"), a path ("string") or a LogFile object.
NoLog == [kind |-> "none", printGiven |-> FALSE, print |-> FALSE, ttlGiven |-> FALSE, ttl |-> 0]

\* The options that name a log file (Interfaces.ts:3-14): a path, or an object
\* with print undefined, true or false and printTTL undefined or a number.
LogInputs ==
  { [kind |-> "string", printGiven |-> FALSE, print |-> FALSE, ttlGiven |-> FALSE, ttl |-> 0] }
  \cup { [kind |-> "object", printGiven |-> pg, print |-> pg /\ pv, ttlGiven |-> FALSE, ttl |-> 0] :
           pg \in BOOLEAN, pv \in BOOLEAN }
  \cup { [kind |-> "object", printGiven |-> pg, print |-> pg /\ pv, ttlGiven |-> TRUE, ttl |-> n] :
           pg \in BOOLEAN, pv \in BOOLEAN, n \in 1..MaxTTL }

logFileHandler(lf) ==
  LET isLogFile == lf.kind = "object"
      result == [ path |-> IF isLogFile THEN TRUE ELSE lf.kind = "string",
                  print |-> IF isLogFile /\ lf.printGiven THEN lf.print ELSE FALSE,
                  printTTL |-> IF isLogFile /\ lf.ttlGiven THEN lf.ttl ELSE DefaultTTL,
                  streamed |-> 0,
                  tail |-> -1,
                  retryCount |-> 0 ]
  IN IF isLogFile /\ lf.ttlGiven THEN [result EXCEPT !.print = TRUE] ELSE result

\* Service.ts:64-66,94: the state the constructor leaves.
InitState(cmd) == IF cmd THEN "READY" ELSE "UNDEFINED"

Init ==
  /\ command \in BOOLEAN
  /\ startWait \in Waits
  /\ logFile = logFileHandler(NoLog)
  /\ state = InitState(command)
  /\ pid = 0
  /\ proc = 0
  /\ procOpen = FALSE
  /\ tid = "null"
  /\ stale = 0
  /\ rid = 0
  /\ handles = {}
  /\ child = [a \in Attempts |-> "none"]
  /\ nAtt = 0
  /\ signalled = {}
  /\ awaiting = {}
  /\ promises = {}
  /\ reads = <<>>
  /\ fileLen = 0
  /\ written = 0
  /\ nStop = 0
  /\ lastCb = IF command THEN "onReady" ELSE "none"
  /\ last = Env("init")
  /\ apiOpen = TRUE

\* The fields a handler reads and writes, and what its caller sees: thrown
\* (an exception left the handler), sent (Deno.kill was called), out (the
\* completion signal is resolved "ok", rejected "rej" or pending "pend"), g (the
\* attempt the call made), over (the call would exceed a bound of the model).
Cur ==
  [ logFile |-> logFile, state |-> state, pid |-> pid, proc |-> proc, procOpen |-> procOpen,
    tid |-> tid, stale |-> stale, rid |-> rid, handles |-> handles, child |-> child,
    nAtt |-> nAtt, signalled |-> signalled, awaiting |-> awaiting, promises |-> promises,
    reads |-> reads, nStop |-> nStop, lastCb |-> lastCb, last |-> last,
    thrown |-> FALSE, sent |-> FALSE, out |-> "ok", g |-> 0, over |-> FALSE ]

Set(s) ==
  /\ logFile' = s.logFile
  /\ state' = s.state
  /\ pid' = s.pid
  /\ proc' = s.proc
  /\ procOpen' = s.procOpen
  /\ tid' = s.tid
  /\ stale' = s.stale
  /\ rid' = s.rid
  /\ handles' = s.handles
  /\ child' = s.child
  /\ nAtt' = s.nAtt
  /\ signalled' = s.signalled
  /\ awaiting' = s.awaiting
  /\ promises' = s.promises
  /\ reads' = s.reads
  /\ nStop' = s.nStop
  /\ lastCb' = s.lastCb
  /\ last' = s.last

Bump(n) == IF n < 2 THEN n + 1 ELSE 2

\* Service.ts:207: this.proc?.close() is core.close(rid), which throws
\* BadResource when the resource was closed before, and is skipped when
\* this.proc is undefined.
ProcCloseNeverThrows(pr, po) == FALSE
ProcCloseThrows(pr, po) == pr # 0 /\ ~po

\* Service.ts:199-216.
kill(s) ==
  IF s.state = "UNDEFINED" THEN s
  ELSE
    LET s1 == IF s.pid # 0
              THEN [s EXCEPT !.signalled = IF s.child[s.pid] = "alive" THEN @ \cup {s.pid} ELSE @,
                             !.pid = 0,
                             !.sent = TRUE]
              ELSE s
    IN IF ProcCloseThrows(s1.proc, s1.procOpen)
       THEN [s1 EXCEPT !.thrown = TRUE]
       ELSE
         LET s2 == [s1 EXCEPT !.procOpen = FALSE]
             s3 == IF s2.tid # "null" THEN [s2 EXCEPT !.tid = "null"] ELSE s2
         IN IF s3.rid # 0
            THEN [s3 EXCEPT !.handles = @ \ {s3.rid}, !.rid = 0]
            ELSE s3

\* Service.ts:226-230.
resetLogFileStats(s) ==
  [s EXCEPT !.logFile.retryCount = 0, !.logFile.streamed = 0, !.logFile.tail = -1]

\* Service.ts:255: the state test of the reschedule.
Reschedules(st) == st \in {"STARTED", "READY"}

\* Service.ts:235-257: one poll cycle.  The read of lines 238-250 completes
\* later (ReadDone); lines 252-255 run before any byte was counted.
printLog(s) ==
  IF ~s.logFile.print THEN s
  ELSE
    LET s1 == [s EXCEPT !.logFile.tail = s.logFile.streamed,
                        !.reads = Append(@, s.logFile.streamed),
                        !.over = @ \/ Len(s.reads) >= MaxReads]
    IN IF s1.logFile.retryCount >= s1.logFile.printTTL THEN s1
       ELSE
         LET s2 == IF s1.logFile.streamed > s1.logFile.tail
                   THEN [s1 EXCEPT !.logFile.retryCount = 0] ELSE s1
             s3 == IF s2.logFile.streamed = s2.logFile.tail
                   THEN [s2 EXCEPT !.logFile.retryCount = @ + 1] ELSE s2
         IN IF Reschedules(s3.state)
            THEN [s3 EXCEPT !.tid = "pending",
                            !.stale = IF s3.tid = "pending" THEN @ + 1 ELSE @,
                            !.over = @ \/ (s3.tid = "pending" /\ s3.stale >= MaxStale)]
            ELSE s3

\* Service.ts:232-260.
printer(s) == IF ~s.logFile.path THEN s ELSE printLog(s)

\* Service.ts:153: whether start() waits before it sets STARTED.
WaitingIgnoresStartWait(wait, sw) == wait > 0
Waiting(wait, sw) == wait > 0 \/ sw > 0

\* Service.ts:127-157 up to the await of line 154 (or to the end, without a
\* wait).  ok: Deno.run spawned the child; k: the call is start() or the
\* start() inside restart(); old: the pid recorded when that call began.
start(s, wait, ok, k, old) ==
  IF s.state = "UNDEFINED" THEN s
  ELSE
    LET a  == s.nAtt + 1
        s1 == [resetLogFileStats(s) EXCEPT !.lastCb = "onStart", !.nAtt = a, !.g = a]
        s2 == IF s1.logFile.path THEN [s1 EXCEPT !.handles = @ \cup {a}] ELSE s1
    IN IF ~ok THEN [s2 EXCEPT !.out = "rej", !.thrown = TRUE]
       ELSE
         LET s3 == [s2 EXCEPT !.proc = a, !.procOpen = TRUE, !.child[a] = "alive", !.nStop = 0]
             s4 == IF s3.logFile.path THEN [s3 EXCEPT !.rid = a] ELSE s3
             s5 == [printer(s4) EXCEPT !.pid = a]
         IN IF Waiting(wait, startWait)
            THEN [s5 EXCEPT !.awaiting = @ \cup {[g |-> a, k |-> k, old |-> old]},
                            !.promises = @ \cup {<<k, a>>},
                            !.out = "pend"]
            ELSE [s5 EXCEPT !.state = "STARTED"]

\* Service.ts:156: the continuation of start() after the warm-up wait.
resume(s, p) ==
  [s EXCEPT !.state = "STARTED", !.awaiting = @ \ {p}, !.promises = @ \ {<<p.k, p.g>>}]

stopUnguarded(s) ==
  LET s1 == kill(s)
  IN IF s1.thrown THEN [s1 EXCEPT !.out = "rej"]
     ELSE [s1 EXCEPT !.state = "STOPPED", !.lastCb = "onStop", !.nStop = Bump(@)]

\* Service.ts:160-172.  From UNDEFINED the executor returns before resolve().
stop(s) ==
  IF s.state = "UNDEFINED"
  THEN [s EXCEPT !.promises = @ \cup {<<"stop", 0>>}, !.out = "pend"]
  ELSE
    LET s1 == kill(s)
    IN IF s1.thrown THEN [s1 EXCEPT !.out = "rej"]
       ELSE [s1 EXCEPT !.state = "STOPPED", !.lastCb = "onStop", !.nStop = Bump(@)]

\* Service.ts:179-192.
restart(s, wait, ok) ==
  IF s.state = "UNDEFINED"
  THEN [s EXCEPT !.promises = @ \cup {<<"restart", 0>>}, !.out = "pend"]
  ELSE
    LET s1 == kill([s EXCEPT !.state = "RESTARTING"])
    IN IF s1.thrown THEN [s1 EXCEPT !.out = "rej"]
       ELSE start([s1 EXCEPT !.lastCb = "onRestart"], wait, ok, "restart", s.pid)

\* Service.ts:145: the test of the exit watcher.
WatcherActs(st) == st # "STOPPED"

watcherKillOnly(s) == IF WatcherActs(s.state) THEN kill(s) ELSE s

\* Service.ts:143-150: the reaction to spawn.status().
watcher(s) ==
  IF WatcherActs(s.state)
  THEN LET s1 == kill(s)
       IN IF s1.thrown THEN s1
          ELSE [s1 EXCEPT !.state = "STOPPED", !.lastCb = "onStop", !.nStop = Bump(@)]
  ELSE s

\* Service.ts:219-224.
print(s, b) ==
  IF ~s.logFile.path THEN s
  ELSE LET s1 == [s EXCEPT !.logFile.print = b]
       IN IF b THEN printer(s1) ELSE s1

\* ---------------------------------------------------------------- actions

\* The owner calls start(wait); ok: the backend spawns the executable.
Start(wait, ok) ==
  /\ apiOpen
  /\ nAtt < MaxSpawn
  /\ LET s == start(Cur, wait, ok, "start", pid)
     IN /\ ~s.over
        /\ Set([s EXCEPT !.last = Ev("start", s.out, s.g, 0, 0, FALSE)])
        /\ written' = IF s.proc # proc THEN 0 ELSE written
  /\ UNCHANGED <<cfg, fileLen, apiOpen>>

\* The continuation of a start() whose warm-up wait is over.
Resume(p) ==
  /\ p \in awaiting
  /\ LET s == resume(Cur, p)
     IN Set([s EXCEPT !.last = Ev(IF p.k = "start" THEN "resolveStart" ELSE "resolveRestart",
                                  "ok", p.g, p.old, 0, FALSE)])
  /\ UNCHANGED <<cfg, env>>

\* The owner calls stop().
Stop ==
  /\ apiOpen
  /\ LET s == stop(Cur)
     IN Set([s EXCEPT !.last = Ev("stop", s.out, 0, 0, 0, s.sent)])
  /\ UNCHANGED <<cfg, env>>

\* The owner calls restart(wait).
Restart(wait, ok) ==
  /\ apiOpen
  /\ nAtt < MaxSpawn
  /\ LET s == restart(Cur, wait, ok)
     IN /\ ~s.over
        /\ Set([s EXCEPT !.last = Ev("restart", s.out, s.g, pid, wait, FALSE)])
        /\ written' = IF s.proc # proc THEN 0 ELSE written
  /\ UNCHANGED <<cfg, fileLen, apiOpen>>

\* The owner calls kill() directly.
Kill ==
  /\ apiOpen
  /\ LET s == kill(Cur)
     IN Set([s EXCEPT !.last = Ev("kill", IF s.thrown THEN "rej" ELSE "ok", 0, 0, 0, FALSE)])
  /\ UNCHANGED <<cfg, env>>

\* The owner calls print(b).
PrintCall(b) ==
  /\ apiOpen
  /\ LET s == print(Cur, b)
     IN /\ ~s.over
        /\ Set([s EXCEPT !.last = Env("print")])
  /\ UNCHANGED <<cfg, env>>

\* The owner makes no further call.
Quiesce ==
  /\ apiOpen
  /\ apiOpen' = FALSE
  /\ last' = Env("env")
  /\ UNCHANGED <<cfg, logFile, state, pid, proc, procOpen, tid, stale, rid, handles, child, nAtt,
                 signalled, awaiting, promises, reads, nStop, lastCb, fileLen, written>>

\* A child ends, on its own or after a signal.
ChildExit(a) ==
  /\ child[a] = "alive"
  /\ Set([Cur EXCEPT !.child[a] = "exited", !.last = Env("env")])
  /\ UNCHANGED <<cfg, env>>

\* sleep.ts:7-9,21-23: sleep() blocks the thread, so the status() of the child
\* a start() spawned is delivered only after that call's continuation.
Blocked(a, aw) == \E p \in aw : p.g = a

\* The event loop delivers status() of child a.
Watcher(a) ==
  /\ child[a] = "exited"
  /\ ~Blocked(a, awaiting)
  /\ LET s == watcher([Cur EXCEPT !.child[a] = "done"])
     IN Set([s EXCEPT !.last = Ev("watch", IF s.thrown THEN "rej" ELSE "ok", 0, 0, 0, FALSE)])
  /\ UNCHANGED <<cfg, env>>

\* A poll timer fires (Service.ts:255): the one this.tid names, or a stale one.
TimerFire(named) ==
  /\ awaiting = {}
  /\ IF named THEN tid = "pending" ELSE stale > 0
  /\ LET s0 == IF named THEN [Cur EXCEPT !.tid = "fired"] ELSE [Cur EXCEPT !.stale = @ - 1]
         s  == printLog(s0)
     IN /\ ~s.over
        /\ Set([s EXCEPT !.last = Env("timer")])
  /\ UNCHANGED <<cfg, env>>

\* Service.ts:244-248: a read launched by a poll cycle reaches the end of the
\* file: every byte from its offset on is counted and written to stdout.
ReadDone(i) ==
  /\ awaiting = {}
  /\ i \in 1..Len(reads)
  /\ Set([Cur EXCEPT !.logFile.streamed = @ + Max(0, fileLen - reads[i]),
                     !.reads = SubSeq(reads, 1, i - 1) \o SubSeq(reads, i + 1, Len(reads)),
                     !.last = Env("env")])
  /\ UNCHANGED <<cfg, env>>

\* The current child writes one byte to its stdout, the log file.
ChildWrite ==
  /\ logFile.path
  /\ proc # 0
  /\ child[proc] = "alive"
  /\ written < MaxBytes
  /\ written' = written + 1
  /\ fileLen' = Max(fileLen, written + 1)
  /\ last' = Env("env")
  /\ UNCHANGED <<cfg, logFile, state, pid, proc, procOpen, tid, stale, rid, handles, child, nAtt,
                 signalled, awaiting, promises, reads, nStop, lastCb, apiOpen>>

\* A Service without a log file: the tailer never runs.
Next ==
  \/ \E wait \in Waits, ok \in BOOLEAN : Start(wait, ok)
  \/ \E p \in awaiting : Resume(p)
  \/ Stop
  \/ \E wait \in Waits, ok \in BOOLEAN : Restart(wait, ok)
  \/ Kill
  \/ \E b \in BOOLEAN : PrintCall(b)
  \/ Quiesce
  \/ \E a \in Attempts : ChildExit(a)
  \/ \E a \in Attempts : Watcher(a)

Spec == Init /\ [][Next]_vars

\* A Service with a command and a log file.
InitLog ==
  /\ command = TRUE
  /\ startWait = 0
  /\ \E lf \in LogInputs : logFile = logFileHandler(lf)
  /\ state = InitState(command)
  /\ pid = 0
  /\ proc = 0
  /\ procOpen = FALSE
  /\ tid = "null"
  /\ stale = 0
  /\ rid = 0
  /\ handles = {}
  /\ child = [a \in Attempts |-> "none"]
  /\ nAtt = 0
  /\ signalled = {}
  /\ awaiting = {}
  /\ promises = {}
  /\ reads = <<>>
  /\ fileLen = 0
  /\ written = 0
  /\ nStop = 0
  /\ lastCb = "onReady"
  /\ last = Env("init")
  /\ apiOpen = TRUE

NextLog ==
  \/ Next
  \/ \E named \in BOOLEAN : TimerFire(named)
  \/ \E i \in 1..MaxReads : ReadDone(i)
  \/ ChildWrite

SpecLog == InitLog /\ [][NextLog]_vars

\* A Service with a command; the warm-up wait is the argument of the calls.
\* The event loop does not stop while a continuation is ready or a completed
\* status() is undelivered.
InitLive == Init /\ command = TRUE /\ startWait = 0

\* One turn of the event loop: a continuation that is ready, or the
\* reaction to a status() that has completed.
LoopTurn == (\E p \in awaiting : Resume(p)) \/ (\E a \in Attempts : Watcher(a))

FairSpec ==
  /\ InitLive
  /\ [][Next]_vars
  /\ WF_vars(LoopTurn)

\* ------------------------------------------------------------------ claims

\* Nothing is left to run: the owner makes no further call, no continuation
\* waits and every child that was spawned has ended and been reported.
Quiescent ==
  /\ ~apiOpen
  /\ awaiting = {}
  /\ \A a \in Attempts : child[a] \in {"none", "done"}

\* C1: a Service constructed without a command stays UNDEFINED: no call
\* changes the state, records a pid, spawns or signals a process or invokes
\* a callback of the options.
C1_UndefinedInert ==
  ~command =>
    /\ state = "UNDEFINED"
    /\ pid = 0
    /\ proc = 0
    /\ nAtt = 0
    /\ \A a \in Attempts : child[a] = "none"
    /\ signalled = {}
    /\ ~last.sent
    /\ lastCb = "none"
    /\ nStop = 0

C1_Witness ==
  /\ ~command
  /\ promises = {<<"stop", 0>>, <<"restart", 0>>}
  /\ last.op = "kill"

\* C2: whenever a start() call on a Service with a command resolves, the
\* state is STARTED and the recorded pid is the pid of the child that call
\* spawned.
C2_StartResolvesStarted ==
  (command /\ ((last.op = "start" /\ last.out = "ok") \/ last.op = "resolveStart")) =>
    (state = "STARTED" /\ pid = last.g /\ pid > 0)

\* C3: when the recorded child ends on its own while the state is not
\* STOPPED and the owner makes no further call, the Service reaches STOPPED
\* with no pid recorded and onStop fired.
OwnExit(a) ==
  /\ child[a] = "exited"
  /\ a \notin signalled
  /\ pid = a
  /\ state # "STOPPED"
  /\ ~apiOpen

C3_NaturalExitDetected ==
  (\E a \in Attempts : OwnExit(a)) ~> (state = "STOPPED" /\ pid = 0 /\ nStop > 0)

C3_Witness ==
  /\ ~apiOpen
  /\ last.op = "watch"
  /\ state = "STOPPED"
  /\ pid = 0
  /\ nStop = 1
  /\ \E a \in Attempts : child[a] = "done" /\ a \notin signalled /\ proc = a

\* C4: when a restart() call resolves, the state is STARTED and the recorded
\* pid is the pid of the child that restart spawned, which differs from the
\* pid recorded before the restart.
C4_RestartResolvesNewPid ==
  (command /\ ((last.op = "restart" /\ last.out = "ok") \/ last.op = "resolveRestart")) =>
    (state = "STARTED" /\ pid = last.g /\ pid > 0 /\ pid # last.old)

\* C5 as stated: after every restart(wait) call on a Service with a command
\* has returned, for every wait and startWait, the state is RESTARTING.
C5_Original ==
  (command /\ last.op = "restart") => state = "RESTARTING"

\* C5 as amended: after a restart(wait) call with wait > 0 or startWait > 0
\* has returned, the state is RESTARTING and the completion signal is not
\* resolved; STARTED is set by the continuation only.
C5_RestartingObservable ==
  (command /\ last.op = "restart" /\ (last.w > 0 \/ startWait > 0)) =>
    (state = "RESTARTING" /\ last.out # "ok")

C5_Witness ==
  /\ command
  /\ last.op = "restart"
  /\ last.w = 1
  /\ last.out = "pend"
  /\ state = "RESTARTING"
  /\ pid = last.g

\* C6: between one start() that spawned a child and the next, onStop fires
\* at most once.
C6_OnStopAtMostOnce ==
  proc # 0 => nStop <= 1

C6_Witness ==
  /\ nStop = 1
  /\ last.op = "watch"
  /\ state = "STOPPED"
  /\ \E a \in Attempts : child[a] = "done" /\ a \in signalled /\ proc = a

\* C7: of two stop() calls in a row on a Service with a command, the second
\* resolves without error, leaves the state STOPPED and sends no signal.
C7_StopTwice ==
  [][(command /\ last.op = "stop" /\ last'.op = "stop") =>
       (last'.out = "ok" /\ state' = "STOPPED" /\ ~last'.sent)]_vars

\* C8: every completion signal that start(), stop() and restart() hand out
\* settles: when nothing is left to run, none is pending.
C8_SignalsSettle ==
  Quiescent => promises = {}

\* No poll timer is pending and no read of the log is in flight.
TailerIdle == tid # "pending" /\ stale = 0 /\ reads = <<>>

\* C9: with a log path and print enabled, the bytes the child wrote are all
\* forwarded: when nothing is left to run and the tailer is idle, streamed
\* has reached the number of bytes written.
C9_AllBytesForwarded ==
  (Quiescent /\ proc # 0 /\ logFile.path /\ logFile.print /\ TailerIdle) =>
    logFile.streamed >= written

\* C10: retryCount never exceeds printTTL, and once a poll cycle run by a
\* timer finds retryCount >= printTTL no poll timer is pending.
C10_TailerGoesIdle ==
  /\ [](logFile.retryCount <= logFile.printTTL)
  /\ [][(last'.op = "timer" /\ logFile.print /\ logFile.retryCount >= logFile.printTTL) =>
          (tid' # "pending" /\ stale' = 0)]_vars

\* C11: the recorded pid is non-null exactly when the state is STARTED or
\* RESTARTING and the spawned child has not been confirmed exited.
C11_PidIffRunning ==
  command =>
    (pid # 0 <=> (state \in {"STARTED", "RESTARTING"} /\ proc # 0 /\ child[proc] # "done"))

\* The print mode the documentation of LogFile gives for an option.
DocumentedPrint(lf) ==
  IF lf.kind = "object" /\ lf.printGiven THEN lf.print
  ELSE lf.kind = "object" /\ lf.ttlGiven

\* C12: after construction, for every logFile option, print mode is off when
\* print is false, on when print is true, on when print is undefined and
\* printTTL is a number, off otherwise; printTTL is the given number, else 4.
C12_LogNormalization ==
  last.op = "init" =>
    \A lf \in LogInputs :
      logFile = logFileHandler(lf) =>
        /\ logFile.print = DocumentedPrint(lf)
        /\ logFile.printTTL = IF lf.ttlGiven THEN lf.ttl ELSE 4

\* C13: print(true) on a Service with a log path, in READY or STARTED, after
\* the poll loop has ended (its last timer fired and scheduled no other, by
\* print(false) or by retryCount reaching printTTL), leaves a poll timer
\* pending.
C13_PrintRearms ==
  [][(last'.op = "print" /\ logFile'.print /\ logFile.path
        /\ state \in {"READY", "STARTED"} /\ tid = "fired" /\ stale = 0) =>
       tid' = "pending"]_vars

\* C14: a poll cycle that finds streamed larger than the prior poll left it
\* (tail, set by that poll) resets retryCount to 0.
C14_GrowthResetsRetry ==
  [][(last'.op = "timer" /\ logFile.print /\ logFile.retryCount < logFile.printTTL
        /\ logFile.tail >= 0 /\ logFile.streamed > logFile.tail) =>
       logFile'.retryCount = 0]_vars

\* C15: when a start() or restart() on a Service with a log path and print
\* enabled has resolved, a poll timer is pending.
C15_StartArmsTailer ==
  (last.op \in {"start", "restart"} /\ last.out = "ok" /\ logFile.path /\ logFile.print) =>
    (state = "STARTED" /\ tid = "pending")

\* C16: at most one write handle the Service opened on the log is open.
C16_OneWriteHandle ==
  Cardinality(handles) <= 1

\* C17: when kill() or stop() has returned without error, the pid is
\* cleared, the write handle is released and no poll timer is pending.
C17_KillClearsAll ==
  (command /\ last.op \in {"kill", "stop"} /\ last.out = "ok") =>
    (pid = 0 /\ rid = 0 /\ tid # "pending" /\ stale = 0)

\* C18: a restart() whose completion signal is rejected does not leave the
\* Service in RESTARTING.
C18_RestartingTransient ==
  (command /\ last.op = "restart" /\ last.out = "rej") => state # "RESTARTING"

\* C19: the reaction to the exit of a child that stop() or restart() has
\* signalled and that is no longer the current one signals no child and
\* changes neither pid, state nor the onStop count.
C19_WatcherOwnGeneration ==
  [][\A a \in Attempts :
       (last'.op = "watch" /\ child[a] = "exited" /\ child'[a] = "done"
          /\ a \in signalled /\ proc # a) =>
         (pid' = pid /\ state' = state /\ nStop' = nStop /\ signalled' = signalled)]_vars

\* C20: a child that is alive and was not signalled is the one whose pid is
\* recorded.
C20_NoOrphan ==
  \A a \in Attempts : (child[a] = "alive" /\ a \notin signalled) => pid = a

====
